---- MODULE Spec2Model ----
(***************************************************************************)
(* Property discovery and engagement: PropertyViewSet of                   *)
(* properties/views.py (search over the catalogue, track_view, inquire).   *)
(*                                                                         *)
(* Text (query parameter values, header values, addresses) is a sequence   *)
(* of one-character strings, so that splitting and number parsing are      *)
(* computed and not assumed; an ordering term is the sequence of its "-"   *)
(* prefix, if any, and its field name.  A Python dict (query_params, META, *)
(* data) is a function whose DOMAIN is the set of keys that are present.   *)
(***************************************************************************)
EXTENDS Integers, Sequences, FiniteSets, TLC

VARIABLES
    properties,   \* Property table: id -> row
    views,        \* PropertyView table: sequence of rows, in insertion order
    inquiries,    \* PropertyInquiry table: sequence of rows, in insertion order
    request,      \* the request being answered (NoRequest between requests)
    response,     \* its response, until it has left the server
    procs         \* in-flight track_view calls (process -> local state)

vars == <<properties, views, inquiries, request, response, procs>>

----------------------------------------------------------------------------
(* Bounds of the model *)

MaxProps == 2
MaxPrice == 1
MaxArea == 1
MaxSupplied == 2
MaxViews == 2
MaxInquiries == 2
MaxProcs == 2

PropIds == 1..MaxProps
\* primary keys a URL may name: the stored ids and one that is never stored
Pks == 1..(MaxProps + 1)
Categories == {<<"h">>, <<"l">>}
Titles == {<<"a">>, <<"b">>}

----------------------------------------------------------------------------
(* Text helpers *)

Digits == <<"0", "1", "2", "3", "4", "5", "6", "7", "8", "9">>

IsDigit(c) == \E i \in 1..Len(Digits) : Digits[i] = c

DigitVal(c) == (CHOOSE i \in 1..Len(Digits) : Digits[i] = c) - 1

\* the text of a small natural number
NumText(n) == <<Digits[n + 1]>>

\* a filter value is usable as a number iff it is a non-empty digit string
IsNumber(s) == Len(s) > 0 /\ \A i \in 1..Len(s) : IsDigit(s[i])

RECURSIVE ToNumber(_)
ToNumber(s) ==
    IF Len(s) = 0 THEN 0
    ELSE 10 * ToNumber(SubSeq(s, 1, Len(s) - 1)) + DigitVal(s[Len(s)])

\* Python truthiness of dict.get(key): the key is present and its text is not empty
Truthy(d, k) == k \in DOMAIN d /\ d[k] # <<>>

\* the dicts with at most n of the keys K present, key k holding a value of V[k]
Dicts(K, n, V) ==
    UNION { { d \in [S -> UNION { V[k] : k \in K }] : \A k \in S : d[k] \in V[k] }
            : S \in { T \in SUBSET K : Cardinality(T) <= n } }

EmptyDict == [k \in {} |-> <<>>]

----------------------------------------------------------------------------
(* The Property table.  The id stands for created_at as well: rows are      *)
(* created in id order and created_at is never rewritten.  No operation of  *)
(* the view set computes a rating; every row keeps the initial one.         *)

PropertyRows ==
    [price : 0..MaxPrice, area : 0..MaxArea, is_available : BOOLEAN,
     category : Categories, title : Titles, rating : {0}]

Catalogues == [PropIds -> PropertyRows]

----------------------------------------------------------------------------
(* PropertyViewSet: class attributes *)

\* of the seven filterset_fields the rows carry category; the other six are
\* filtered by the same equality
filterset_fields == {"category"}
\* of the three search_fields the rows carry title
search_fields == {"title"}
ordering_fields == {"price", "created_at", "rating", "area"}
ordering == <<"-", "created_at">>

RangeParams == {"min_price", "max_price", "min_area", "max_area"}

----------------------------------------------------------------------------
(* PropertyViewSet.get_queryset *)

\* variant: Property.objects.all(): the availability predicate is dropped
AllQueryset(props) == DOMAIN props

\* Property.objects.filter(is_available=True)
AvailableQueryset(props) == { id \in DOMAIN props : props[id].is_available }

\* queryset.filter(price__gte=min_price) etc.: a value that is no number makes
\* the lookup raise while the filter is built
FilterRaises(qp) == \E k \in RangeParams : Truthy(qp, k) /\ ~IsNumber(qp[k])

\* variant: price__gt / price__lt: the bounds are exclusive
PriceFilterExclusive(props, qs, qp) ==
    { id \in qs :
        /\ Truthy(qp, "min_price") => props[id].price > ToNumber(qp["min_price"])
        /\ Truthy(qp, "max_price") => props[id].price < ToNumber(qp["max_price"]) }

PriceFilter(props, qs, qp) ==
    { id \in qs :
        /\ Truthy(qp, "min_price") => props[id].price >= ToNumber(qp["min_price"])
        /\ Truthy(qp, "max_price") => props[id].price <= ToNumber(qp["max_price"]) }

AreaFilter(props, qs, qp) ==
    { id \in qs :
        /\ Truthy(qp, "min_area") => props[id].area >= ToNumber(qp["min_area"])
        /\ Truthy(qp, "max_area") => props[id].area <= ToNumber(qp["max_area"]) }

get_queryset(props, qp) ==
    AreaFilter(props, PriceFilter(props, AvailableQueryset(props), qp), qp)

----------------------------------------------------------------------------
(* filter_backends, applied by filter_queryset to the list and to get_object *)

\* DjangoFilterBackend over filterset_fields: equality on each supplied field
DjangoFilter(props, qs, qp) ==
    { id \in qs : \A f \in filterset_fields : f \in DOMAIN qp => props[id][f] = qp[f] }

\* term occurs in text (icontains; the texts of the model are lower case)
Contains(text, term) ==
    \E i \in 0..(Len(text) - Len(term)) : SubSeq(text, i + 1, i + Len(term)) = term

\* SearchFilter: the search term must occur in one of search_fields
SearchFilter(props, qs, qp) ==
    { id \in qs :
        Truthy(qp, "search") => \E f \in search_fields : Contains(props[id][f], qp["search"]) }

\* OrderingFilter.remove_invalid_fields: a term is kept iff its field, with a
\* leading "-" removed, is one of ordering_fields
TermField(term) == IF Len(term) > 0 /\ term[1] = "-" THEN Tail(term) ELSE term

TermValid(term) == Len(TermField(term)) = 1 /\ TermField(term)[1] \in ordering_fields

\* OrderingFilter.get_ordering: the valid requested term, else the view's default
get_ordering(qp) ==
    IF Truthy(qp, "ordering") /\ TermValid(qp["ordering"]) THEN qp["ordering"] ELSE ordering

SortKey(props, id, field) ==
    CASE field = "price" -> props[id].price
      [] field = "area" -> props[id].area
      [] field = "rating" -> props[id].rating
      [] field = "created_at" -> id

Descending(term) == Len(term) > 0 /\ term[1] = "-"

InOrder(props, term, a, b) ==
    IF Descending(term)
    THEN SortKey(props, a, TermField(term)[1]) >= SortKey(props, b, TermField(term)[1])
    ELSE SortKey(props, a, TermField(term)[1]) <= SortKey(props, b, TermField(term)[1])

\* the listings of qs in every order ORDER BY term allows (rows with equal keys
\* come in any order)
Ordered(props, qs, term) ==
    { s \in [1..Cardinality(qs) -> qs] :
        /\ \A i, j \in DOMAIN s : i # j => s[i] # s[j]
        /\ \A i, j \in DOMAIN s : i < j => InOrder(props, term, s[i], s[j]) }

filter_queryset(props, qs, qp) == SearchFilter(props, DjangoFilter(props, qs, qp), qp)

----------------------------------------------------------------------------
(* Requests and responses *)

NoRequest == [op |-> "none", pk |-> 0, qp |-> EmptyDict, meta |-> EmptyDict, data |-> EmptyDict]
NoResponse == [status |-> 0, results |-> <<>>, errors |-> {}]

\* the processes serving concurrent track_view calls
Procs == 1..MaxProcs
IdleProc == [pc |-> "idle", pk |-> 0, ip |-> <<>>, ua |-> <<>>, status |-> 0]

Response(status, results, errors) ==
    [status |-> status, results |-> results, errors |-> errors]

BoundTexts == { NumText(n) : n \in 0..MaxPrice } \cup { NumText(n) : n \in 0..MaxArea }
MalformedTexts == {<<>>, <<"x">>}
OrderingTexts ==
    { <<f>> : f \in ordering_fields \cup {"title"} }
        \cup { <<"-", f>> : f \in ordering_fields \cup {"title"} }

ParamValues ==
    [k \in RangeParams \cup {"category", "search", "ordering"} |->
        CASE k \in RangeParams -> BoundTexts \cup MalformedTexts
          [] k = "category" -> Categories
          [] k = "search" -> Titles
          [] k = "ordering" -> OrderingTexts]

\* query strings of a search: at most MaxSupplied of the price bounds, an
\* exact match, a search term and an ordering, well-formed or not
SearchParams ==
    Dicts({"min_price", "max_price", "category", "search", "ordering"}, MaxSupplied,
          ParamValues)
\* query strings holding range bounds only, any number of them, each a number
NumericValues == [k \in RangeParams |-> BoundTexts]
RangeOnlyParams == Dicts(RangeParams, Cardinality(RangeParams), NumericValues)

\* no request is being answered
Idle == request = NoRequest

\* the response leaves the server; the handlers keep nothing between requests
Respond ==
    /\ ~Idle
    /\ request' = NoRequest
    /\ response' = NoResponse
    /\ UNCHANGED <<properties, views, inquiries, procs>>

----------------------------------------------------------------------------
(* GET /properties/: ModelViewSet.list over filter_queryset(get_queryset()) *)

List(qp) ==
    /\ Idle
    /\ request' = [NoRequest EXCEPT !.op = "list", !.qp = qp]
    /\ IF FilterRaises(qp)
       THEN response' = Response(500, <<>>, {})
       ELSE \E s \in Ordered(properties,
                             filter_queryset(properties, get_queryset(properties, qp), qp),
                             get_ordering(qp)) :
                response' = Response(200, s, {})
    /\ UNCHANGED <<properties, views, inquiries, procs>>

Search == Idle /\ \E qp \in SearchParams : List(qp)

RangeSearch == Idle /\ \E qp \in RangeOnlyParams : List(qp)

\* the catalogues that differ in price, area and availability
RangeCatalogues ==
    { c \in Catalogues : \A id \in PropIds : c[id].category = <<"h">> /\ c[id].title = <<"a">> }

\* the catalogues that differ in price, category and availability; titles
\* alternate with the id
TitleOf(id) == IF id % 2 = 1 THEN <<"a">> ELSE <<"b">>
SearchCatalogues ==
    { c \in Catalogues : \A id \in PropIds : c[id].area = 0 /\ c[id].title = TitleOf(id) }

InitRange ==
    /\ properties \in RangeCatalogues
    /\ views = <<>>
    /\ inquiries = <<>>
    /\ request = NoRequest
    /\ response = NoResponse
    /\ procs = [p \in Procs |-> IdleProc]

InitStore ==
    /\ properties \in SearchCatalogues
    /\ views = <<>>
    /\ inquiries = <<>>
    /\ request = NoRequest
    /\ response = NoResponse
    /\ procs = [p \in Procs |-> IdleProc]

Init == InitStore

Next == Search \/ Respond

Spec == Init /\ [][Next]_vars

NextRange == RangeSearch \/ Respond

SpecRange == InitRange /\ [][NextRange]_vars

----------------------------------------------------------------------------
(* Detail routes: GenericAPIView.get_object looks pk up in                  *)
(* filter_queryset(get_queryset()), the queryset the list uses              *)

\* "raised": building the queryset raised; "missing": Http404; "found"
get_object(props, pk, qp) ==
    IF FilterRaises(qp) THEN "raised"
    ELSE IF pk \in filter_queryset(props, get_queryset(props, qp), qp) THEN "found"
    ELSE "missing"

----------------------------------------------------------------------------
(* PropertyViewSet.get_client_ip *)

\* x_forwarded_for.split(',')[0]: the text before the first comma
RECURSIVE FirstEntry(_)
FirstEntry(s) ==
    IF Len(s) = 0 \/ s[1] = "," THEN <<>> ELSE <<s[1]>> \o FirstEntry(Tail(s))

\* variant: the connection address wins over the forwarded header
get_client_ip_direct(meta) ==
    IF "REMOTE_ADDR" \in DOMAIN meta
    THEN meta["REMOTE_ADDR"]
    ELSE FirstEntry(meta["HTTP_X_FORWARDED_FOR"])

get_client_ip(meta) ==
    IF Truthy(meta, "HTTP_X_FORWARDED_FOR")
    THEN FirstEntry(meta["HTTP_X_FORWARDED_FOR"])
    ELSE meta["REMOTE_ADDR"]

\* request.META.get('HTTP_USER_AGENT', '')
UserAgent(meta) == IF "HTTP_USER_AGENT" \in DOMAIN meta THEN meta["HTTP_USER_AGENT"] ELSE <<>>

----------------------------------------------------------------------------
(* The PropertyView table *)

ViewRow(pk, ip, ua) == [property |-> pk, ip_address |-> ip, user_agent |-> ua]

\* the rows PropertyView.objects.get(property=..., ip_address=...) matches
Matching(table, pk, ip) ==
    { i \in DOMAIN table : table[i].property = pk /\ table[i].ip_address = ip }

\* the (property, ip_address) uniqueness constraint: the insert is refused
\* with IntegrityError when a row with the key is stored
UniqueViolation(table, row) == Matching(table, row.property, row.ip_address) # {}

----------------------------------------------------------------------------
(* POST /properties/{pk}/track_view/ *)

\* variant: update_or_create: a matching row takes the new user agent
UpdateOrCreate(table, pk, ip, ua) ==
    IF Matching(table, pk, ip) # {}
    THEN [i \in DOMAIN table |->
            IF i \in Matching(table, pk, ip) THEN ViewRow(pk, ip, ua) ELSE table[i]]
    ELSE Append(table, ViewRow(pk, ip, ua))

\* PropertyView.objects.get_or_create(property, ip_address, defaults) run with
\* no other request in between: the row is created iff none matches
GetOrCreate(table, pk, ip, ua) ==
    IF Matching(table, pk, ip) # {} THEN table ELSE Append(table, ViewRow(pk, ip, ua))

track_view(pk, qp, meta) ==
    /\ Idle
    /\ request' = [NoRequest EXCEPT !.op = "track_view", !.pk = pk, !.qp = qp, !.meta = meta]
    /\ CASE get_object(properties, pk, qp) = "raised" ->
              /\ response' = Response(500, <<>>, {})
              /\ views' = views
         [] get_object(properties, pk, qp) = "missing" ->
              /\ response' = Response(404, <<>>, {})
              /\ views' = views
         [] get_object(properties, pk, qp) = "found" ->
              /\ views' = GetOrCreate(views, pk, get_client_ip(meta), UserAgent(meta))
              /\ Len(views') <= MaxViews
              /\ response' = Response(200, <<>>, {})
    /\ UNCHANGED <<properties, inquiries, procs>>

----------------------------------------------------------------------------
(* POST /properties/{pk}/inquire/ *)

RequiredInquiryFields == {"contact", "message"}

\* PropertyInquirySerializer(data=...).errors: the required fields that are
\* missing or blank
InquiryErrors(data) ==
    { f \in RequiredInquiryFields : f \notin DOMAIN data \/ data[f] = <<>> }

\* serializer.save(property=property_obj): the row is created in the initial status
InquiryRow(pk, data) ==
    [property |-> pk, contact |-> data["contact"], message |-> data["message"],
     status |-> "submitted"]

\* variant: the row is saved before is_valid() is consulted
inquire_unvalidated(pk, qp, data) ==
    /\ Idle
    /\ request' = [NoRequest EXCEPT !.op = "inquire", !.pk = pk, !.qp = qp, !.data = data]
    /\ CASE get_object(properties, pk, qp) = "raised" ->
              /\ response' = Response(500, <<>>, {})
              /\ inquiries' = inquiries
         [] get_object(properties, pk, qp) = "missing" ->
              /\ response' = Response(404, <<>>, {})
              /\ inquiries' = inquiries
         [] get_object(properties, pk, qp) = "found" ->
              /\ Len(inquiries) < MaxInquiries
              /\ inquiries' = Append(inquiries,
                     [property |-> pk,
                      contact |-> IF "contact" \in DOMAIN data THEN data["contact"] ELSE <<>>,
                      message |-> IF "message" \in DOMAIN data THEN data["message"] ELSE <<>>,
                      status |-> "submitted"])
              /\ response' = IF InquiryErrors(data) = {} THEN Response(201, <<>>, {})
                             ELSE Response(400, <<>>, InquiryErrors(data))
    /\ UNCHANGED <<properties, views, procs>>

inquire(pk, qp, data) ==
    /\ Idle
    /\ request' = [NoRequest EXCEPT !.op = "inquire", !.pk = pk, !.qp = qp, !.data = data]
    /\ CASE get_object(properties, pk, qp) = "raised" ->
              /\ response' = Response(500, <<>>, {})
              /\ inquiries' = inquiries
         [] get_object(properties, pk, qp) = "missing" ->
              /\ response' = Response(404, <<>>, {})
              /\ inquiries' = inquiries
         [] get_object(properties, pk, qp) = "found" ->
              IF InquiryErrors(data) = {}
              THEN /\ Len(inquiries) < MaxInquiries
                   /\ inquiries' = Append(inquiries, InquiryRow(pk, data))
                   /\ response' = Response(201, <<>>, {})
              ELSE /\ inquiries' = inquiries
                   /\ response' = Response(400, <<>>, InquiryErrors(data))
    /\ UNCHANGED <<properties, views, procs>>

----------------------------------------------------------------------------
(* PATCH /properties/{pk}/: ModelViewSet.partial_update of is_available *)

partial_update(pk, qp, avail) ==
    /\ Idle
    /\ request' = [NoRequest EXCEPT !.op = "partial_update", !.pk = pk, !.qp = qp]
    /\ CASE get_object(properties, pk, qp) = "raised" ->
              /\ response' = Response(500, <<>>, {})
              /\ properties' = properties
         [] get_object(properties, pk, qp) = "missing" ->
              /\ response' = Response(404, <<>>, {})
              /\ properties' = properties
         [] get_object(properties, pk, qp) = "found" ->
              /\ properties' = [properties EXCEPT ![pk].is_available = avail]
              /\ response' = Response(200, <<>>, {})
    /\ UNCHANGED <<views, inquiries, procs>>

----------------------------------------------------------------------------
(* Inputs of the detail routes *)

Addresses == {<<"a">>, <<"b">>}
ForwardedTexts == {<<>>, <<"a">>, <<"b", ",", "a">>, <<",", "a">>}
AgentTexts == {<<"u">>, <<"v">>}

MetaValues ==
    [k \in {"HTTP_X_FORWARDED_FOR", "REMOTE_ADDR", "HTTP_USER_AGENT"} |->
        CASE k = "HTTP_X_FORWARDED_FOR" -> ForwardedTexts
          [] k = "REMOTE_ADDR" -> Addresses
          [] k = "HTTP_USER_AGENT" -> AgentTexts]

\* REMOTE_ADDR and the user agent are always sent; the forwarded header may be absent
Metas ==
    { m \in Dicts({"HTTP_X_FORWARDED_FOR", "REMOTE_ADDR", "HTTP_USER_AGENT"}, 3, MetaValues) :
        {"REMOTE_ADDR", "HTTP_USER_AGENT"} \subseteq DOMAIN m }

\* one client, reached directly
DirectMetas ==
    { m \in Metas : /\ "HTTP_X_FORWARDED_FOR" \notin DOMAIN m
                    /\ m["REMOTE_ADDR"] = <<"a">>
                    /\ m["HTTP_USER_AGENT"] = <<"u">> }

\* query strings on a detail route: at most one price bound
DetailParams == Dicts({"min_price", "max_price"}, 1, ParamValues)

InquiryValues == [k \in RequiredInquiryFields |-> {<<>>, <<"t">>}]
InquiryData == Dicts(RequiredInquiryFields, Cardinality(RequiredInquiryFields), InquiryValues)

\* the catalogues that differ in availability only
DefaultRow ==
    [price |-> 0, area |-> 0, is_available |-> TRUE, category |-> <<"h">>, title |-> <<"a">>,
     rating |-> 0]
AvailabilityCatalogues ==
    { [id \in PropIds |-> [DefaultRow EXCEPT !.is_available = a[id]]] : a \in [PropIds -> BOOLEAN] }

InitEngage ==
    /\ properties \in AvailabilityCatalogues
    /\ views = <<>>
    /\ inquiries = <<>>
    /\ request = NoRequest
    /\ response = NoResponse
    /\ procs = [p \in Procs |-> IdleProc]

TrackView == Idle /\ \E pk \in Pks, meta \in Metas : track_view(pk, EmptyDict, meta)

SetAvailability == Idle /\ \E pk \in Pks, avail \in BOOLEAN : partial_update(pk, EmptyDict, avail)

NextTrack == TrackView \/ SetAvailability \/ Respond

SpecTrack == InitEngage /\ [][NextTrack]_vars

TrackViewDirect ==
    Idle /\ \E pk \in Pks, qp \in DetailParams, meta \in DirectMetas : track_view(pk, qp, meta)

Inquire == Idle /\ \E pk \in Pks, qp \in DetailParams, data \in InquiryData : inquire(pk, qp, data)

NextEngage == TrackViewDirect \/ Inquire \/ SetAvailability \/ Respond

SpecEngage == InitEngage /\ [][NextEngage]_vars

----------------------------------------------------------------------------
(* track_view calls served concurrently.  Each call is a process; the      *)
(* database statements of get_or_create are its steps, and statements of    *)
(* different calls interleave in any order.                                 *)

SetProc(p, pc, status) == procs' = [procs EXCEPT ![p].pc = pc, ![p].status = status]

\* property_obj = self.get_object(); ip_address, user_agent are read
TrackBegin(p, pk, meta) ==
    /\ procs[p].pc = "idle"
    /\ procs' = [procs EXCEPT ![p] =
           IF get_object(properties, pk, EmptyDict) = "found"
           THEN [pc |-> "get", pk |-> pk, ip |-> get_client_ip(meta),
                 ua |-> UserAgent(meta), status |-> 0]
           ELSE [pc |-> "done", pk |-> pk, ip |-> get_client_ip(meta),
                 ua |-> UserAgent(meta), status |-> 404]]
    /\ UNCHANGED <<properties, views, inquiries, request, response>>

\* get_or_create: self.get(**kwargs)
TrackGet(p) ==
    /\ procs[p].pc = "get"
    /\ CASE Cardinality(Matching(views, procs[p].pk, procs[p].ip)) = 0 -> SetProc(p, "create", 0)
         [] Cardinality(Matching(views, procs[p].pk, procs[p].ip)) = 1 -> SetProc(p, "done", 200)
         [] OTHER -> SetProc(p, "done", 500)
    /\ UNCHANGED <<properties, views, inquiries, request, response>>

\* variant: objects.create() in place of get_or_create: the IntegrityError
\* reaches the client
TrackCreatePlain(p) ==
    /\ procs[p].pc = "create"
    /\ IF UniqueViolation(views, ViewRow(procs[p].pk, procs[p].ip, procs[p].ua))
       THEN /\ SetProc(p, "done", 500)
            /\ views' = views
       ELSE /\ Len(views) < MaxViews
            /\ views' = Append(views, ViewRow(procs[p].pk, procs[p].ip, procs[p].ua))
            /\ SetProc(p, "done", 200)
    /\ UNCHANGED <<properties, inquiries, request, response>>

\* get_or_create: self.create(**params) inside transaction.atomic(); an
\* IntegrityError is caught and the row is fetched again
TrackCreate(p) ==
    /\ procs[p].pc = "create"
    /\ IF UniqueViolation(views, ViewRow(procs[p].pk, procs[p].ip, procs[p].ua))
       THEN /\ SetProc(p, "refetch", 0)
            /\ views' = views
       ELSE /\ Len(views) < MaxViews
            /\ views' = Append(views, ViewRow(procs[p].pk, procs[p].ip, procs[p].ua))
            /\ SetProc(p, "done", 200)
    /\ UNCHANGED <<properties, inquiries, request, response>>

\* get_or_create: the second self.get(**kwargs); DoesNotExist re-raises the
\* IntegrityError
TrackRefetch(p) ==
    /\ procs[p].pc = "refetch"
    /\ IF Cardinality(Matching(views, procs[p].pk, procs[p].ip)) = 1
       THEN SetProc(p, "done", 200)
       ELSE SetProc(p, "done", 500)
    /\ UNCHANGED <<properties, views, inquiries, request, response>>

\* return Response({'status': 'view tracked'}), or the error response
TrackEnd(p) ==
    /\ procs[p].pc = "done"
    /\ procs' = [procs EXCEPT ![p] = IdleProc]
    /\ UNCHANGED <<properties, views, inquiries, request, response>>

\* the concurrent calls come from one address and differ in listing and user agent
ConcMetas ==
    { m \in Metas : "HTTP_X_FORWARDED_FOR" \notin DOMAIN m /\ m["REMOTE_ADDR"] = <<"a">> }

NextConc ==
    \E p \in Procs :
        \/ \E pk \in Pks, meta \in ConcMetas : TrackBegin(p, pk, meta)
        \/ TrackGet(p)
        \/ TrackCreate(p)
        \/ TrackRefetch(p)
        \/ TrackEnd(p)

SpecConc == InitEngage /\ [][NextConc]_vars

----------------------------------------------------------------------------
(* Properties of search *)

SearchAnswered == request.op = "list"

SuppliedBounds == DOMAIN request.qp \cap RangeParams

\* the listings a range-only search is to return: available, and within every
\* supplied bound, bounds included
WithinBounds(id) ==
    /\ properties[id].is_available
    /\ "min_price" \in DOMAIN request.qp => properties[id].price >= ToNumber(request.qp["min_price"])
    /\ "max_price" \in DOMAIN request.qp => properties[id].price <= ToNumber(request.qp["max_price"])
    /\ "min_area" \in DOMAIN request.qp => properties[id].area >= ToNumber(request.qp["min_area"])
    /\ "max_area" \in DOMAIN request.qp => properties[id].area <= ToNumber(request.qp["max_area"])

ResultSet == { response.results[i] : i \in DOMAIN response.results }

\* C1: whatever query parameters a search supplies, every listing in its
\* result is available; an unavailable listing is never returned.
C1_OnlyAvailableReturned ==
    SearchAnswered => \A i \in DOMAIN response.results : properties[response.results[i]].is_available

\* C1 witness: a filtered search returned a listing while the catalogue holds
\* an unavailable listing that the supplied filters would have let through.
C1_Witness ==
    /\ SearchAnswered
    /\ response.status = 200
    /\ Len(response.results) = 1
    /\ DOMAIN request.qp = {"category", "max_price"}
    /\ \E id \in DOMAIN properties :
         /\ ~properties[id].is_available
         /\ properties[id].category = request.qp["category"]
         /\ properties[id].price <= ToNumber(request.qp["max_price"])

\* C4: a search supplying only range bounds (each a number) returns exactly the
\* available listings with min_price <= price <= max_price and
\* min_area <= area <= max_area, bounds included; an omitted bound does not constrain.
C4_RangeResultExact ==
    (SearchAnswered /\ DOMAIN request.qp \subseteq RangeParams
        /\ \A k \in SuppliedBounds : IsNumber(request.qp[k]))
    => /\ response.status = 200
       /\ ResultSet = { id \in DOMAIN properties : WithinBounds(id) }
       /\ Len(response.results) = Cardinality(ResultSet)

\* C4 witness: all four bounds are supplied, a listing exactly on the price and
\* area bounds is returned, and an available listing outside them is left out.
C4_Witness ==
    /\ SearchAnswered
    /\ SuppliedBounds = RangeParams
    /\ \A k \in RangeParams : IsNumber(request.qp[k])
    /\ \E id \in ResultSet :
         /\ properties[id].price = ToNumber(request.qp["min_price"])
         /\ properties[id].price = ToNumber(request.qp["max_price"])
         /\ properties[id].area = ToNumber(request.qp["max_area"])
    /\ \E id \in DOMAIN properties : properties[id].is_available /\ id \notin ResultSet

\* C6: a search whose ordering parameter names a field outside
\* {price, created_at, rating, area}, with or without the "-" prefix, is
\* rejected with a validation error and returns no results.
C6_UnsupportedOrderingRejected ==
    (SearchAnswered /\ "ordering" \in DOMAIN request.qp
        /\ request.qp["ordering"] \notin
             ({ <<f>> : f \in {"price", "created_at", "rating", "area"} }
                \cup { <<"-", f>> : f \in {"price", "created_at", "rating", "area"} }))
    => response.status = 400 /\ "ordering" \in response.errors /\ response.results = <<>>

\* C7: a search supplying a range bound that is not a well-formed number (the
\* empty string included) is rejected as a validation failure naming the field,
\* and returns no listings.
C7_MalformedBoundRejected ==
    \A k \in RangeParams :
        (SearchAnswered /\ k \in DOMAIN request.qp /\ ~IsNumber(request.qp[k]))
        => response.status = 400 /\ k \in response.errors /\ response.results = <<>>

----------------------------------------------------------------------------
(* Properties of track_view *)

\* a handler of the named operation ran in this step
Handled(op) == request = NoRequest /\ request'.op = op

SameKey(r1, r2) == r1.property = r2.property /\ r1.ip_address = r2.ip_address

\* C2: over any sequence of track_view calls there is at most one PropertyView
\* per (property, ip); a stored record is never changed or removed; a call that
\* succeeds leaves a record for its pair, and a record is created only for a
\* pair that had none, with the user agent of the call that creates it. So N
\* calls for a pair leave one record carrying the first call's user agent.
C2_FirstViewWins ==
    [][ /\ \A i, j \in DOMAIN views' : i # j => ~SameKey(views'[i], views'[j])
        /\ \A i \in DOMAIN views : i \in DOMAIN views' /\ views'[i] = views[i]
        /\ (Handled("track_view") /\ response'.status = 200)
             => \E i \in DOMAIN views' :
                  /\ views'[i].property = request'.pk
                  /\ views'[i].ip_address = get_client_ip(request'.meta)
        /\ Len(views') > Len(views)
             => /\ Handled("track_view")
                /\ Len(views') = Len(views) + 1
                /\ views'[Len(views')].user_agent = request'.meta["HTTP_USER_AGENT"]
      ]_vars

\* C2 witness: a repeated call for a recorded (property, ip) pair succeeded with
\* another user agent, and the one record of the pair keeps the earlier one.
C2_Witness ==
    /\ request.op = "track_view"
    /\ response.status = 200
    /\ Len(views) = 1
    /\ views[1].property = request.pk
    /\ views[1].ip_address = get_client_ip(request.meta)
    /\ views[1].user_agent # request.meta["HTTP_USER_AGENT"]

\* e is the first entry of the comma-separated text h
IsFirstEntry(e, h) ==
    /\ Len(e) <= Len(h)
    /\ \A i \in 1..Len(e) : e[i] = h[i] /\ e[i] # ","
    /\ Len(e) = Len(h) \/ h[Len(e) + 1] = ","

FirstEntryOf(h) ==
    LET n == CHOOSE n \in 0..Len(h) : IsFirstEntry(SubSeq(h, 1, n), h) IN SubSeq(h, 1, n)

\* a successful track_view recorded its view under key: the pair's record is
\* kept if there is one, else one is created under that key
RecordedUnder(key) ==
    IF \E i \in DOMAIN views : views[i].property = request'.pk /\ views[i].ip_address = key
    THEN views' = views
    ELSE views' = Append(views, ViewRow(request'.pk, key, request'.meta["HTTP_USER_AGENT"]))

\* C9 as stated: the attribution key is the first X-Forwarded-For entry whenever
\* the header is present, and REMOTE_ADDR only when it is absent.
C9_ForwardedWheneverPresent ==
    [][ (Handled("track_view") /\ response'.status = 200)
          => RecordedUnder(IF "HTTP_X_FORWARDED_FOR" \in DOMAIN request'.meta
                           THEN FirstEntryOf(request'.meta["HTTP_X_FORWARDED_FOR"])
                           ELSE request'.meta["REMOTE_ADDR"])
      ]_vars

\* C9 amended: the attribution key is the first X-Forwarded-For entry whenever
\* the header is present and not empty, whatever the connection address; it is
\* REMOTE_ADDR when the header is absent or empty. Two calls with the same first
\* entry therefore share one (property, ip) record.
C9_ForwardedWhenNotEmpty ==
    [][ (Handled("track_view") /\ response'.status = 200)
          => RecordedUnder(IF /\ "HTTP_X_FORWARDED_FOR" \in DOMAIN request'.meta
                              /\ request'.meta["HTTP_X_FORWARDED_FOR"] # <<>>
                           THEN FirstEntryOf(request'.meta["HTTP_X_FORWARDED_FOR"])
                           ELSE request'.meta["REMOTE_ADDR"])
      ]_vars

\* C9 witness: a call arrived over connection address "a" with the forwarded
\* list "b,a"; the listing's only record is keyed by "b".
C9_Witness ==
    /\ request.op = "track_view"
    /\ response.status = 200
    /\ "HTTP_X_FORWARDED_FOR" \in DOMAIN request.meta
    /\ request.meta["HTTP_X_FORWARDED_FOR"] = <<"b", ",", "a">>
    /\ request.meta["REMOTE_ADDR"] = <<"a">>
    /\ Len(views) = 1
    /\ views[1] = ViewRow(request.pk, <<"b">>, request.meta["HTTP_USER_AGENT"])

----------------------------------------------------------------------------
(* Properties of inquire and of the listing lookup *)

Offending(data) == { f \in {"contact", "message"} : f \notin DOMAIN data \/ data[f] = <<>> }

\* a bound the request supplies as a number, and its value
NumericBound(qp, k) == k \in DOMAIN qp /\ IsNumber(qp[k])

\* the request's range parameters leave the listing out
ExcludedByRange(pk, qp) ==
    \/ NumericBound(qp, "min_price") /\ properties[pk].price < ToNumber(qp["min_price"])
    \/ NumericBound(qp, "max_price") /\ properties[pk].price > ToNumber(qp["max_price"])
    \/ NumericBound(qp, "min_area") /\ properties[pk].area < ToNumber(qp["min_area"])
    \/ NumericBound(qp, "max_area") /\ properties[pk].area > ToNumber(qp["max_area"])

\* a supplied, non-empty bound that is no number
MalformedBound(qp) == \E k \in DOMAIN qp \cap RangeParams : qp[k] # <<>> /\ ~IsNumber(qp[k])

\* the listing the request names exists, is available and passes the request's filters
Resolves(pk, qp) ==
    /\ pk \in DOMAIN properties
    /\ properties[pk].is_available
    /\ ~MalformedBound(qp)
    /\ ~ExcludedByRange(pk, qp)
    /\ "category" \in DOMAIN qp => qp["category"] = properties[pk].category
    /\ ("search" \in DOMAIN qp /\ qp["search"] # <<>>)
         => \E i \in 0..Len(properties[pk].title) : \E j \in i..Len(properties[pk].title) :
               SubSeq(properties[pk].title, i + 1, j) = qp["search"]

\* the inquire call validated its fields: errors keyed by the offending fields
\* and nothing stored, or one new inquiry on the named listing, "submitted"
ValidatedAndStored ==
    IF Offending(request'.data) # {}
    THEN /\ inquiries' = inquiries
         /\ response'.status = 400
         /\ response'.errors = Offending(request'.data)
    ELSE /\ Len(inquiries') = Len(inquiries) + 1
         /\ SubSeq(inquiries', 1, Len(inquiries)) = inquiries
         /\ inquiries'[Len(inquiries')].property = request'.pk
         /\ inquiries'[Len(inquiries')].status = "submitted"
         /\ response'.status = 201

C8_UnknownListingNotFound ==
    [][ ((Handled("track_view") \/ Handled("inquire")) /\ request'.pk \notin DOMAIN properties)
          => /\ response'.status = 404
             /\ views' = views
             /\ inquiries' = inquiries
      ]_vars

\* C10: a track_view or inquire call naming a listing that exists but is
\* unavailable, or that the request's range parameters leave out, fails with
\* NotFound and stores nothing; every record these calls store references a
\* listing that is available when the record is stored.
C10_UnavailableListingNotFound ==
    [][ (Handled("track_view") \/ Handled("inquire"))
          => /\ ( /\ request'.pk \in DOMAIN properties
                  /\ ~properties[request'.pk].is_available
                       \/ ExcludedByRange(request'.pk, request'.qp) )
                => /\ response'.status = 404
                   /\ views' = views
                   /\ inquiries' = inquiries
             /\ \A i \in DOMAIN views' \ DOMAIN views :
                  properties[views'[i].property].is_available
             /\ \A i \in DOMAIN inquiries' \ DOMAIN inquiries :
                  properties[inquiries'[i].property].is_available
      ]_vars

----------------------------------------------------------------------------
(* Properties of concurrent track_view calls *)

\* C3: however the statements of concurrent track_view calls interleave, no
\* (property, ip) pair ever has two PropertyView records, and every call on a
\* listing it could look up ends with the success acknowledgment.
C3_ConcurrentViewsUnique ==
    /\ \A i, j \in DOMAIN views : i # j => ~SameKey(views[i], views[j])
    /\ \A p \in Procs :
         procs[p].pc = "done"
           => procs[p].status =
                IF procs[p].pk \in DOMAIN properties /\ properties[procs[p].pk].is_available
                THEN 200 ELSE 404

\* C3 witness: two calls for one (property, ip) pair with different user agents
\* both found no record; one inserted it, the other's insert was refused.
C3_Witness ==
    \E p, q \in Procs :
        /\ procs[p].pc = "refetch"
        /\ procs[q].pc = "done"
        /\ procs[q].status = 200
        /\ procs[p].pk = procs[q].pk
        /\ procs[p].ip = procs[q].ip
        /\ procs[p].ua # procs[q].ua
        /\ views = <<ViewRow(procs[q].pk, procs[q].ip, procs[q].ua)>>

====
